---- MODULE Spec2Model ----
(***************************************************************************)
(* Model of observable/core.py: class Observable, an in-process event      *)
(* registry.  The registry (self._events) maps event names to handler      *)
(* lists; on / once / off mutate it, trigger / trigger_async dispatch to   *)
(* a copy of the list.  Handlers are user code: while a handler runs it    *)
(* may call any operation of the registry again (re-entrancy), return or   *)
(* raise; an asynchronous handler awaited by trigger_async may suspend, so *)
(* several trigger_async calls can be outstanding at once.                 *)
(* get_handlers / is_registered / get_all_handlers only read it; the lists *)
(* they return are list objects of their own.                              *)
(***************************************************************************)
EXTENDS Integers, Sequences, FiniteSets, TLC

\* ---------------------------------------------------------------- bounds
MaxLen == 3     \* longest handler list on() is allowed to build per event
MaxOps == 3     \* number of API calls (top-level or nested) in one behaviour
MaxOnce == 1    \* number of once() registrations in one behaviour
MaxArgs == 2    \* most handlers passed to one on / off / once call

\* ------------------------------------------------------------ value sets
None == "<None>"                   \* Python's None (off's default event)
EventNames == {"a", ""}            \* event names are arbitrary strings
SyncHandlers == {"f", "g"}         \* ordinary callables
AsyncHandlers == {"co"}            \* coroutine functions (async def)
UserHandlers == SyncHandlers \cup AsyncHandlers
WNames == <<"w1", "w2", "w3", "w4">>
Wrappers == {WNames[i] : i \in 1..MaxOnce}
ArgTuples == {<<1>>}               \* positional arguments of a trigger call
KwDicts == {<<>>, <<"k">>}         \* keyword arguments: the keys given
Tasks == 1..(MaxOps + 1)           \* outstanding top-level trigger calls

VARIABLES
    events,     \* self._events: [subset of EventNames -> Seq(handler)]
    wrappers,   \* the _wrapper closures made by once(): Seq([event, handlers])
    stacks,     \* per task, the call stack of an outstanding trigger call
    cur,        \* the task whose code is running; 0 when none is
    pool,       \* jobs handed to the default executor by run_in_executor
    last,       \* the API call that finished most recently, with its outcome
    ncalls,     \* per wrapper: times it has called its first wrapped handler
    nops,       \* API calls the behaviour may still make
    held        \* the result of get_handlers / get_all_handlers user code keeps

vars == <<events, wrappers, stacks, cur, pool, last, ncalls, nops, held>>

\* ------------------------------------------------------------ exceptions
Exc(type, event, handler) == [type |-> type, event |-> event, handler |-> handler]
NoExc == Exc("none", None, None)
EventNotFound(event) == Exc("EventNotFound", event, None)
HandlerNotFound(event, handler) == Exc("HandlerNotFound", event, handler)
SyntaxError == Exc("SyntaxError", None, None)
TypeError == Exc("TypeError", None, None)
RuntimeError == Exc("RuntimeError", None, None)
UserError == Exc("UserError", None, None)

\* ------------------------------------------------------ pure operations
RECURSIVE SeqsUpTo(_, _)
SeqsUpTo(S, n) ==
    IF n = 0 THEN {<<>>}
    ELSE LET shorter == SeqsUpTo(S, n - 1)
         IN shorter \cup {Append(s, x) : s \in shorter, x \in S}

Contains(s, h) == \E i \in 1..Len(s) : s[i] = h

\* s without the occurrences of hs[1] .. hs[n]
Without(s, hs, n) ==
    LET Keep(x) == \A m \in 1..n : x # hs[m]
    IN SelectSeq(s, Keep)

get_handlers(evs, event) ==
    IF event \in DOMAIN evs THEN evs[event] ELSE <<>>

is_registered(evs, event, handler) ==
    Contains(get_handlers(evs, event), handler)

get_all_handlers(evs) == [e \in DOMAIN evs |-> evs[e]]

EmptyRegistry == [e \in {} |-> <<>>]    \* defaultdict(list), no key yet

\* A list object: its items, and `of`, the event under which this very
\* object is stored in self._events (None for an object the registry does
\* not hold).  self._events.get(event, []) hands out the registry's own list
\* for a known event and a new empty list otherwise.
RegistryList(evs, event) ==
    IF event \in DOMAIN evs THEN [items |-> evs[event], of |-> event]
    ELSE [items |-> <<>>, of |-> None]

\* mutant of ListCopy: the list object itself is handed out
ListCopy_Alias(obj) == obj

\* list(obj): a new list object with the same items
ListCopy(obj) == [items |-> obj.items, of |-> None]

\* a result kept by user code: list objects by key, and the items user code
\* can account for (those returned, and what it has appended itself)
NoResult == [lists |-> EmptyRegistry, expect |-> EmptyRegistry]

\* what user code finds in the lists it keeps once the registry reads evs:
\* a list object that is the registry's own shows the registry's items
Seen(h, evs) ==
    [h EXCEPT !.lists = [k \in DOMAIN h.lists |->
        IF h.lists[k].of = None THEN h.lists[k]
        ELSE IF h.lists[k].of \in DOMAIN evs
             THEN [h.lists[k] EXCEPT !.items = evs[h.lists[k].of]]
        ELSE [h.lists[k] EXCEPT !.of = None]]]

\* list.remove(x): drops the first occurrence of x
RECURSIVE remove(_, _)
remove(s, h) ==
    IF s = <<>> THEN <<>>
    ELSE IF Head(s) = h THEN Tail(s)
    ELSE <<Head(s)>> \o remove(Tail(s), h)

\* while callback in lst: lst.remove(callback)
RECURSIVE RemoveAll(_, _)
RemoveAll(s, h) ==
    IF Contains(s, h) THEN RemoveAll(remove(s, h), h) ELSE s

\* mutant of on: the new handlers go in front of the list
on_Prepend(evs, event, hs) ==
    [events |-> [e \in DOMAIN evs \cup {event} |->
                    IF e = event THEN hs \o get_handlers(evs, e) ELSE evs[e]],
     ret |-> hs[1]]

\* self._events[event].extend(handlers); return handlers[0]
on(evs, event, hs) ==
    [events |-> [e \in DOMAIN evs \cup {event} |->
                    IF e = event THEN get_handlers(evs, e) \o hs ELSE evs[e]],
     ret |-> hs[1]]

\* "not event": None and the empty string are both falsy
Falsy(event) == event = None \/ event = ""

\* mutant of OffHandlers: all handlers are looked up before any is removed
OffHandlers_Atomic(evs, event, hs) ==
    IF \E k \in 1..Len(hs) : ~Contains(evs[event], hs[k])
    THEN [events |-> evs,
          exc |-> HandlerNotFound(event,
                     hs[CHOOSE k \in 1..Len(hs) :
                           /\ ~Contains(evs[event], hs[k])
                           /\ \A m \in 1..(k - 1) : Contains(evs[event], hs[m])])]
    ELSE [events |-> [evs EXCEPT ![event] = Without(@, hs, Len(hs))],
          exc |-> NoExc]

\* the for loop of off: one handler after the other, no rollback
RECURSIVE OffHandlers(_, _, _)
OffHandlers(evs, event, hs) ==
    IF hs = <<>> THEN [events |-> evs, exc |-> NoExc]
    ELSE IF ~Contains(evs[event], Head(hs))
         THEN [events |-> evs, exc |-> HandlerNotFound(event, Head(hs))]
    ELSE OffHandlers([evs EXCEPT ![event] = RemoveAll(@, Head(hs))],
                     event, Tail(hs))

\* mutant of off: without an event the lists are emptied, the keys stay
off_KeepKeys(evs, event, hs) ==
    IF Falsy(event) THEN [events |-> [e \in DOMAIN evs |-> <<>>], exc |-> NoExc]
    ELSE IF event \notin DOMAIN evs
         THEN [events |-> evs, exc |-> EventNotFound(event)]
    ELSE IF hs = <<>>
         THEN [events |-> [e \in DOMAIN evs \ {event} |-> evs[e]], exc |-> NoExc]
    ELSE OffHandlers(evs, event, hs)

off(evs, event, hs) ==
    IF Falsy(event) THEN [events |-> EmptyRegistry, exc |-> NoExc]
    ELSE IF event \notin DOMAIN evs
         THEN [events |-> evs, exc |-> EventNotFound(event)]
    ELSE IF hs = <<>>
         THEN [events |-> [e \in DOMAIN evs \ {event} |-> evs[e]], exc |-> NoExc]
    ELSE OffHandlers(evs, event, hs)

\* asyncio.iscoroutinefunction(callback): a once-wrapper is a plain function
iscoroutinefunction(h) == h \in AsyncHandlers

\* ------------------------------------------------------------ call stacks
Top(s) == s[Len(s)]
Pop(s) == SubSeq(s, 1, Len(s) - 1)

\* the callables user code can name: its own functions and the wrappers
\* once() has returned so far
Callables == UserHandlers \cup {WNames[i] : i \in 1..Len(wrappers)}
\* sequences of 2..n distinct ordinary functions
DistinctSeqs(n) ==
    {s \in SeqsUpTo(SyncHandlers, n) :
        Len(s) >= 2 /\ \A i, j \in 1..Len(s) : i # j => s[i] # s[j]}
\* argument lists of on: one user function, or several ordinary ones
OnArgs == {<<h>> : h \in UserHandlers} \cup DistinctSeqs(MaxArgs)
\* argument lists of off: any one callable, or several ordinary functions
HandlerArgs == {<<h>> : h \in Callables} \cup DistinctSeqs(MaxArgs)
\* argument lists of once: one ordinary function, or several
OnceArgs == {<<h>> : h \in SyncHandlers} \cup {s \in DistinctSeqs(MaxArgs) : s[1] = "f"}
WIndex(h) == CHOOSE i \in 1..Len(WNames) : WNames[i] = h
IsWrapper(h) == \E i \in 1..Len(wrappers) : WNames[i] = h

\* a call of trigger / trigger_async in progress: its locals
TriggerFrame(kind, event, args, kw, callbacks) ==
    [kind |-> kind, event |-> event, args |-> args, kw |-> kw,
     callbacks |-> callbacks,      \* the copy taken on entry
     i |-> 0,                      \* callbacks the for loop has taken so far
     invoked |-> <<>>]             \* the calls it has made, with their arguments

\* the body of a user handler running: kind "handler" (def) or "coro" (async def)
HandlerFrame(kind, h, args, kw) ==
    [kind |-> kind, h |-> h, args |-> args, kw |-> kw, exc |-> NoExc]

\* _wrapper running, after its self.off: j wrapped handlers called so far
WrapperFrame(w, args, kw) ==
    [kind |-> "wrapper", w |-> w, j |-> 0, args |-> args, kw |-> kw]

\* run_in_executor(None, callback, args): the pool will call callback(args),
\* args being the one tuple trigger received as *args
Job(callback, args) == [h |-> callback, args |-> <<args>>, state |-> "queued"]

Invocation(h, args, kw, how) == [h |-> h, args |-> args, kw |-> kw, how |-> how]

\* the record kept of a finished API call
Rec(op, event, hs, args, kw, res, exc, pre, post, callbacks, invoked) ==
    [op |-> op, event |-> event, hs |-> hs, args |-> args, kw |-> kw,
     res |-> res,                  \* the value returned, or "raised"
     exc |-> exc,                  \* the exception that left the call
     at |-> "self",                \* raised by the call's own code, by a user
                                   \* "handler", or by a once-"wrapper" itself
     pre |-> pre,                  \* on / off / once: the registry when called
     post |-> post,                \* the registry when the call finished
     callbacks |-> callbacks, invoked |-> invoked]

\* a finished trigger call: evs is the registry it leaves; what it saw of
\* the registry on entry is its callbacks
TriggerRec(F, res, exc, at, evs) ==
    [Rec(F.kind, F.event, <<>>, F.args, F.kw, res, exc, evs, evs,
         F.callbacks, F.invoked) EXCEPT !.at = at]

Idle == \A t \in Tasks : stacks[t] = <<>>
FreeTask == CHOOSE t \in Tasks : stacks[t] = <<>> /\ \A u \in 1..(t - 1) : stacks[u] # <<>>

\* user code that can call the API now: top-level code (0) while no task
\* runs, or the handler body on top of the running task's stack
Ready(c) ==
    IF c = 0 THEN cur = 0
    ELSE /\ cur = c
         /\ stacks[c] # <<>>
         /\ Top(stacks[c]).kind \in {"handler", "coro"}
         /\ Top(stacks[c]).exc = NoExc

CallerKind(c) == IF c = 0 THEN "top" ELSE Top(stacks[c]).kind

\* an exception leaving a call made by caller c lands in c's body
Land(c, exc) ==
    IF c = 0 \/ exc = NoExc THEN stacks
    ELSE [stacks EXCEPT ![c][Len(stacks[c])].exc = exc]

InitWith(n) ==
    /\ events = EmptyRegistry
    /\ wrappers = <<>>
    /\ stacks = [t \in Tasks |-> <<>>]
    /\ cur = 0
    /\ pool = {}
    /\ last = Rec("init", None, <<>>, <<>>, <<>>, "None", NoExc,
                  EmptyRegistry, EmptyRegistry, <<>>, <<>>)
    /\ ncalls = [w \in 1..MaxOnce |-> 0]
    /\ nops = n
    /\ held = NoResult

Init == InitWith(MaxOps)

\* the same registry, with one more API call per behaviour
InitDeep == InitWith(MaxOps + 1)

\* ----------------------------------------------------- registry mutators
On(c, event, hs) ==
    /\ nops > 0
    /\ Ready(c)
    /\ Len(get_handlers(events, event)) + Len(hs) <= MaxLen
    /\ LET r == on(events, event, hs)
       IN /\ events' = r.events
          /\ last' = Rec("on", event, hs, <<>>, <<>>, r.ret, NoExc,
                         events, r.events, <<>>, <<>>)
    /\ nops' = nops - 1
    /\ held' = Seen(held, events')
    /\ UNCHANGED <<wrappers, stacks, cur, pool, ncalls>>

Off(c, event, hs) ==
    /\ nops > 0
    /\ Ready(c)
    /\ LET r == off(events, event, hs)
       IN /\ events' = r.events
          /\ last' = Rec("off", event, hs, <<>>, <<>>,
                         IF r.exc = NoExc THEN "None" ELSE "raised",
                         r.exc, events, r.events, <<>>, <<>>)
          /\ stacks' = Land(c, r.exc)
    /\ nops' = nops - 1
    /\ held' = Seen(held, events')
    /\ UNCHANGED <<wrappers, cur, pool, ncalls>>

\* once(event, *handlers): self.on(event, _once_wrapper(*handlers))
Once(c, event, hs) ==
    /\ nops > 0
    /\ Ready(c)
    /\ Len(wrappers) < MaxOnce
    /\ Len(get_handlers(events, event)) + 1 <= MaxLen
    /\ LET w == WNames[Len(wrappers) + 1]
           r == on(events, event, <<w>>)
       IN /\ wrappers' = Append(wrappers, [event |-> event, handlers |-> hs])
          /\ events' = r.events
          /\ last' = Rec("once", event, hs, <<>>, <<>>, r.ret, NoExc,
                         events, r.events, <<>>, <<>>)
    /\ nops' = nops - 1
    /\ held' = Seen(held, events')
    /\ UNCHANGED <<stacks, cur, pool, ncalls>>

\* ---------------------------------------------------------------- trigger
TriggerKinds == {"trigger", "trigger_async"}

\* entry of trigger / trigger_async: copy the list, return False if empty.
\* trigger_async is a coroutine: only top-level code or an async handler
\* can await it.  A top-level call runs as the lowest free task.
Trigger(c, kind, event, args, kw) ==
    /\ nops > 0
    /\ Ready(c)
    /\ kind = "trigger_async" => CallerKind(c) \in {"top", "coro"}
    /\ LET callbacks == get_handlers(events, event)
           F == TriggerFrame(kind, event, args, kw, callbacks)
       IN IF callbacks = <<>>
          THEN /\ last' = TriggerRec(F, "False", NoExc, "self", events)
               /\ UNCHANGED <<stacks, cur>>
          ELSE /\ stacks' = IF c = 0 THEN [stacks EXCEPT ![FreeTask] = <<F>>]
                            ELSE [stacks EXCEPT ![c] = Append(@, F)]
               /\ cur' = IF c = 0 THEN FreeTask ELSE c
               /\ UNCHANGED last
    /\ nops' = nops - 1
    /\ UNCHANGED <<events, wrappers, pool, ncalls, held>>

Running(t) == cur = t /\ stacks[t] # <<>>
AtLoop(t) == Running(t) /\ Top(stacks[t]).kind \in TriggerKinds

\* the call with frame F leaves task t's stack, `below` being its callers
\* and evs the registry at that moment
Finish(t, below, F, res, exc, at, evs) ==
    /\ stacks' = [stacks EXCEPT ![t] =
                     IF below = <<>> \/ exc = NoExc THEN below
                     ELSE [below EXCEPT ![Len(below)].exc = exc]]
    /\ cur' = IF below = <<>> THEN 0 ELSE t
    /\ last' = TriggerRec(F, res, exc, at, evs)

\* mutant of NextCallback: the loop reads the registry's list, not the copy
NextCallback_Live(F) ==
    IF F.i + 1 <= Len(get_handlers(events, F.event))
    THEN get_handlers(events, F.event)[F.i + 1]
    ELSE F.callbacks[F.i + 1]

\* the callback the for loop takes next
NextCallback(F) == F.callbacks[F.i + 1]

\* the frame after calling cb with the call's arguments
Called(F, cb, how) ==
    [F EXCEPT !.i = @ + 1,
              !.invoked = Append(@, Invocation(cb, F.args, F.kw, how))]

\* the for loop is exhausted: return True
TriggerReturn(t) ==
    /\ AtLoop(t)
    /\ LET F == Top(stacks[t])
       IN /\ F.i = Len(F.callbacks)
          /\ Finish(t, Pop(stacks[t]), F, "True", NoExc, "self", events)
    /\ UNCHANGED <<events, wrappers, pool, ncalls, nops, held>>

\* callback(*args, **kw) on an ordinary user function
DispatchCall(t) ==
    /\ AtLoop(t)
    /\ LET F == Top(stacks[t])
       IN /\ F.i < Len(F.callbacks)
          /\ LET cb == NextCallback(F)
             IN /\ ~iscoroutinefunction(cb)
                /\ ~IsWrapper(cb)
                /\ stacks' = [stacks EXCEPT ![t] =
                       Pop(@) \o <<Called(F, cb, "call"),
                                   HandlerFrame("handler", cb, F.args, F.kw)>>]
    /\ UNCHANGED <<events, wrappers, cur, pool, last, ncalls, nops, held>>

\* mutant of DispatchWrapper: the wrapper goes to its handlers without
\* unregistering itself
DispatchWrapper_NoOff(t) ==
    /\ AtLoop(t)
    /\ LET F == Top(stacks[t])
       IN /\ F.i < Len(F.callbacks)
          /\ LET cb == NextCallback(F)
             IN /\ IsWrapper(cb)
                /\ stacks' = [stacks EXCEPT ![t] =
                       Pop(@) \o <<Called(F, cb, "call"),
                                   WrapperFrame(WIndex(cb), F.args, F.kw)>>]
    /\ UNCHANGED <<events, wrappers, cur, pool, last, ncalls, nops, held>>

\* callback(*args, **kw) on a once-wrapper: self.off(event, _wrapper) first
DispatchWrapper(t) ==
    /\ AtLoop(t)
    /\ LET F == Top(stacks[t])
       IN /\ F.i < Len(F.callbacks)
          /\ LET cb == NextCallback(F)
             IN /\ IsWrapper(cb)
                /\ LET r == off(events, wrappers[WIndex(cb)].event, <<cb>>)
                       G == Called(F, cb, "call")
                   IN /\ events' = r.events
                      /\ IF r.exc = NoExc
                         THEN /\ stacks' = [stacks EXCEPT ![t] =
                                    Pop(@) \o <<G, WrapperFrame(WIndex(cb), F.args, F.kw)>>]
                              /\ UNCHANGED <<cur, last>>
                         ELSE Finish(t, Pop(stacks[t]), G, "raised", r.exc, "wrapper", r.events)
    /\ held' = Seen(held, events')
    /\ UNCHANGED <<wrappers, pool, ncalls, nops>>

\* mutant of DispatchAwait: the coroutine is started as a task of its own
\* and the loop goes on without awaiting it
DispatchAwait_Spawn(t) ==
    /\ AtLoop(t)
    /\ LET F == Top(stacks[t])
       IN /\ F.i < Len(F.callbacks)
          /\ F.kind = "trigger_async"
          /\ LET cb == NextCallback(F)
             IN /\ iscoroutinefunction(cb)
                /\ stacks' = [stacks EXCEPT
                       ![t] = Pop(@) \o <<Called(F, cb, "await")>>,
                       ![FreeTask] = <<HandlerFrame("coro", cb, F.args, F.kw)>>]
    /\ UNCHANGED <<events, wrappers, cur, pool, last, ncalls, nops, held>>

\* trigger_async: await callback(*args, **kw)
DispatchAwait(t) ==
    /\ AtLoop(t)
    /\ LET F == Top(stacks[t])
       IN /\ F.i < Len(F.callbacks)
          /\ F.kind = "trigger_async"
          /\ LET cb == NextCallback(F)
             IN /\ iscoroutinefunction(cb)
                /\ stacks' = [stacks EXCEPT ![t] =
                       Pop(@) \o <<Called(F, cb, "await"),
                                   HandlerFrame("coro", cb, F.args, F.kw)>>]
    /\ UNCHANGED <<events, wrappers, cur, pool, last, ncalls, nops, held>>

\* mutant of DispatchKwError: the keyword arguments are dropped and the
\* coroutine function is handed to the executor with the positional ones
DispatchKwError_Drop(t) ==
    /\ AtLoop(t)
    /\ LET F == Top(stacks[t])
       IN /\ F.i < Len(F.callbacks)
          /\ F.kind = "trigger"
          /\ iscoroutinefunction(NextCallback(F))
          /\ Len(F.kw) > 0
          /\ pool' = pool \cup {Job(NextCallback(F), F.args)}
          /\ Finish(t, Pop(stacks[t]), F, "raised", TypeError, "self", events)
    /\ UNCHANGED <<events, wrappers, ncalls, nops, held>>

\* trigger: a coroutine function with keyword arguments given
DispatchKwError(t) ==
    /\ AtLoop(t)
    /\ LET F == Top(stacks[t])
       IN /\ F.i < Len(F.callbacks)
          /\ F.kind = "trigger"
          /\ iscoroutinefunction(NextCallback(F))
          /\ Len(F.kw) > 0
          /\ Finish(t, Pop(stacks[t]), F, "raised", SyntaxError, "self", events)
    /\ UNCHANGED <<events, wrappers, pool, ncalls, nops, held>>

\* an event loop runs in this thread whenever a coroutine is outstanding;
\* plain top-level code may or may not be inside one
MayHaveNoLoop(t) ==
    /\ \A u \in Tasks \ {t} : stacks[u] = <<>>
    /\ \A k \in 1..Len(stacks[t]) : stacks[t][k].kind \notin {"trigger_async", "coro"}

\* trigger: asyncio.create_task(get_running_loop().run_in_executor(None, callback, args)).
\* Without a running loop get_running_loop() raises RuntimeError.  With one,
\* run_in_executor submits callback(args) to the thread pool and returns a
\* Future; create_task accepts coroutines only and raises TypeError.
DispatchExecutor(t, running) ==
    /\ AtLoop(t)
    /\ LET F == Top(stacks[t])
       IN /\ F.i < Len(F.callbacks)
          /\ F.kind = "trigger"
          /\ iscoroutinefunction(NextCallback(F))
          /\ Len(F.kw) = 0
          /\ ~running => MayHaveNoLoop(t)
          /\ pool' = IF running THEN pool \cup {Job(NextCallback(F), F.args)}
                     ELSE pool
          /\ Finish(t, Pop(stacks[t]), F, "raised",
                    IF running THEN TypeError ELSE RuntimeError, "self", events)
    /\ UNCHANGED <<events, wrappers, ncalls, nops, held>>

\* a pool thread runs callback(args): calling a coroutine function only
\* builds a coroutine object, which becomes the Future's result; nothing
\* awaits it, so the handler's body does not run
ExecutorRun(job) ==
    /\ job \in pool
    /\ job.state = "queued"
    /\ pool' = (pool \ {job}) \cup {[job EXCEPT !.state = "coroutine"]}
    /\ UNCHANGED <<events, wrappers, stacks, cur, last, ncalls, nops, held>>

\* ------------------------------------------------------------ once-wrapper
AtWrapper(t) == Running(t) /\ Top(stacks[t]).kind = "wrapper"

\* for handler in handlers: handler(*args, **kw)
WrapperCall(t) ==
    /\ AtWrapper(t)
    /\ LET W == Top(stacks[t])
           hs == wrappers[W.w].handlers
       IN /\ W.j < Len(hs)
          /\ ncalls' = IF W.j = 0 /\ ncalls[W.w] < 2
                       THEN [ncalls EXCEPT ![W.w] = @ + 1] ELSE ncalls
          /\ stacks' = [stacks EXCEPT ![t] =
                 Pop(@) \o <<[W EXCEPT !.j = @ + 1],
                             HandlerFrame("handler", hs[W.j + 1], W.args, W.kw)>>]
    /\ UNCHANGED <<events, wrappers, cur, pool, last, nops, held>>

WrapperReturn(t) ==
    /\ AtWrapper(t)
    /\ LET W == Top(stacks[t])
       IN /\ W.j = Len(wrappers[W.w].handlers)
          /\ stacks' = [stacks EXCEPT ![t] = Pop(@)]
    /\ UNCHANGED <<events, wrappers, cur, pool, last, ncalls, nops, held>>

\* ------------------------------------------------------ user handler bodies
InBody(t) == Running(t) /\ Top(stacks[t]).kind \in {"handler", "coro"}

HandlerReturn(t) ==
    /\ InBody(t)
    /\ Top(stacks[t]).exc = NoExc
    /\ stacks' = [stacks EXCEPT ![t] = Pop(@)]
    /\ UNCHANGED <<events, wrappers, cur, pool, last, ncalls, nops, held>>

\* mutant of Unwind: the for loop catches the exception and goes on with
\* the next callback
Unwind_Swallow(t, exc) ==
    LET s1 == Pop(stacks[t])
        s2 == IF Top(s1).kind = "wrapper" THEN Pop(s1) ELSE s1
    IN /\ stacks' = [stacks EXCEPT ![t] = s2]
       /\ UNCHANGED <<cur, last>>

\* an exception leaves the handler body on top of task t's stack: it passes
\* through _wrapper (no try) and through the trigger call that invoked the
\* handler (no try), and lands in that call's caller
Unwind(t, exc) ==
    LET s1 == Pop(stacks[t])
        s2 == IF Top(s1).kind = "wrapper" THEN Pop(s1) ELSE s1
    IN Finish(t, Pop(s2), Top(s2), "raised", exc, "handler", events)

\* the handler's own code raises
HandlerRaise(t) ==
    /\ InBody(t)
    /\ Top(stacks[t]).exc = NoExc
    /\ Unwind(t, UserError)
    /\ UNCHANGED <<events, wrappers, pool, ncalls, nops, held>>

\* a call the handler made has raised and the handler does not catch it
Propagate(t) ==
    /\ InBody(t)
    /\ Top(stacks[t]).exc # NoExc
    /\ Unwind(t, Top(stacks[t]).exc)
    /\ UNCHANGED <<events, wrappers, pool, ncalls, nops, held>>

\* ... or the handler catches it (try / except around the call)
Catch(t) ==
    /\ InBody(t)
    /\ Top(stacks[t]).exc # NoExc
    /\ stacks' = [stacks EXCEPT ![t][Len(stacks[t])].exc = NoExc]
    /\ UNCHANGED <<events, wrappers, cur, pool, last, ncalls, nops, held>>

\* an awaited async handler awaits something else: the event loop takes over
Suspend(t) ==
    /\ Running(t)
    /\ Top(stacks[t]).kind = "coro"
    /\ Top(stacks[t]).exc = NoExc
    /\ cur' = 0
    /\ UNCHANGED <<events, wrappers, stacks, pool, last, ncalls, nops, held>>

\* the event loop resumes a suspended task
Resume(t) ==
    /\ cur = 0
    /\ stacks[t] # <<>>
    /\ cur' = t
    /\ UNCHANGED <<events, wrappers, stacks, pool, last, ncalls, nops, held>>

\* ------------------------------------------------------------------ queries
\* return list(self._events.get(event, []))
GetHandlers(c, event) ==
    /\ nops > 0
    /\ Ready(c)
    /\ held' = [lists |-> [k \in {event} |-> ListCopy(RegistryList(events, event))],
                expect |-> [k \in {event} |-> get_handlers(events, event)]]
    /\ last' = Rec("get_handlers", event, <<>>, <<>>, <<>>, "list", NoExc,
                   events, events, <<>>, <<>>)
    /\ nops' = nops - 1
    /\ UNCHANGED <<events, wrappers, stacks, cur, pool, ncalls>>

\* return handler in self._events.get(event, [])
IsRegistered(c, event, handler) ==
    /\ nops > 0
    /\ Ready(c)
    /\ last' = Rec("is_registered", event, <<handler>>, <<>>, <<>>,
                   IF is_registered(events, event, handler) THEN "True" ELSE "False",
                   NoExc, events, events, <<>>, <<>>)
    /\ nops' = nops - 1
    /\ UNCHANGED <<events, wrappers, stacks, cur, pool, ncalls, held>>

\* events[event] = list(handlers) for each item of self._events
GetAllHandlers(c) ==
    /\ nops > 0
    /\ Ready(c)
    /\ held' = [lists |-> [k \in DOMAIN events |-> ListCopy(RegistryList(events, k))],
                expect |-> get_all_handlers(events)]
    /\ last' = Rec("get_all_handlers", None, <<>>, <<>>, <<>>, "dict", NoExc,
                   events, events, <<>>, <<>>)
    /\ nops' = nops - 1
    /\ UNCHANGED <<events, wrappers, stacks, cur, pool, ncalls>>

\* user code appends handler to the list it keeps under key k: a list
\* object that is the registry's own changes in the registry too
ResultAppend(c, k, handler) ==
    /\ nops > 0
    /\ Ready(c)
    /\ k \in DOMAIN held.lists
    /\ Len(held.lists[k].items) < MaxLen
    /\ events' = IF held.lists[k].of \in DOMAIN events
                 THEN [events EXCEPT ![held.lists[k].of] = Append(@, handler)]
                 ELSE events
    /\ held' = Seen([lists |-> [held.lists EXCEPT ![k].items = Append(@, handler)],
                     expect |-> [held.expect EXCEPT ![k] = Append(@, handler)]],
                    events')
    /\ last' = Rec("result.append", k, <<handler>>, <<>>, <<>>, "None", NoExc,
                   events, events', <<>>, <<>>)
    /\ nops' = nops - 1
    /\ UNCHANGED <<wrappers, stacks, cur, pool, ncalls>>

\* ------------------------------------------------------------ specification
Callers == {0} \cup Tasks

Next ==
    \/ \E c \in Callers, event \in EventNames, hs \in OnArgs : On(c, event, hs)
    \/ \E c \in Callers : Off(c, None, <<>>)
    \/ \E c \in Callers, event \in EventNames,
          hs \in HandlerArgs \cup {<<>>} : Off(c, event, hs)
    \/ \E c \in Callers, event \in EventNames, hs \in OnceArgs : Once(c, event, hs)
    \/ \E c \in Callers, kind \in TriggerKinds, event \in EventNames,
          args \in ArgTuples, kw \in KwDicts : Trigger(c, kind, event, args, kw)
    \/ \E t \in Tasks : TriggerReturn(t)
    \/ \E t \in Tasks : DispatchCall(t)
    \/ \E t \in Tasks : DispatchWrapper(t)
    \/ \E t \in Tasks : DispatchAwait(t)
    \/ \E t \in Tasks : DispatchKwError(t)
    \/ \E t \in Tasks, running \in BOOLEAN : DispatchExecutor(t, running)
    \/ \E job \in pool : ExecutorRun(job)
    \/ \E t \in Tasks : WrapperCall(t)
    \/ \E t \in Tasks : WrapperReturn(t)
    \/ \E t \in Tasks : HandlerReturn(t)
    \/ \E t \in Tasks : HandlerRaise(t)
    \/ \E t \in Tasks : Propagate(t)
    \/ \E t \in Tasks : Catch(t)
    \/ \E t \in Tasks : Suspend(t)
    \/ \E t \in Tasks : Resume(t)

Spec == Init /\ [][Next]_vars

SpecDeep == InitDeep /\ [][Next]_vars

\* the operations above together with the queries and what user code does
\* with their results
NextQ ==
    \/ Next
    \/ \E c \in Callers, event \in EventNames : GetHandlers(c, event)
    \/ \E c \in Callers, event \in EventNames, h \in Callables : IsRegistered(c, event, h)
    \/ \E c \in Callers : GetAllHandlers(c)
    \/ \E c \in Callers, k \in EventNames, h \in SyncHandlers : ResultAppend(c, k, h)

SpecQ == Init /\ [][NextQ]_vars

\* ------------------------------------------------------------------ claims
IsOff == last.op = "off"
IsTrigger == last.op \in TriggerKinds
Names(invoked) == [k \in 1..Len(invoked) |-> invoked[k].h]
OtherEventsSame(pre, post, event) ==
    \A e \in EventNames \ {event} :
        /\ e \in DOMAIN post <=> e \in DOMAIN pre
        /\ get_handlers(post, e) = get_handlers(pre, e)

\* C1: while no trigger call is in progress, every event name that is a key
\* of the registry (as get_all_handlers reports it) maps to a non-empty list
C1_KeysNonEmpty ==
    Idle => \A e \in DOMAIN get_all_handlers(events) :
                get_all_handlers(events)[e] # <<>>

\* C2: off(event) with a (non-empty) event name and no handlers raises
\* EventNotFound(event) whenever the event had no handlers, and otherwise
\* removes the event so that get_handlers(event) is empty afterwards
C2_OffEvent ==
    (IsOff /\ last.event \in EventNames \ {""} /\ last.hs = <<>>) =>
        IF get_handlers(last.pre, last.event) = <<>>
        THEN last.exc = EventNotFound(last.event)
        ELSE last.exc = NoExc /\ get_handlers(last.post, last.event) = <<>>

C4_OnceAtMostOnce ==
    \A w \in 1..Len(wrappers) : ncalls[w] <= 1

\* the same statement for the event names that are not the empty string,
\* with what "exactly once" comes to: a trigger call that returns True with
\* the wrapper in its copy has made the wrapper call its handler
C4_OnceAtMostOnceNamed ==
    \A w \in 1..Len(wrappers) :
        /\ wrappers[w].event # "" => ncalls[w] <= 1
        /\ (IsTrigger /\ last.res = "True" /\ Contains(last.callbacks, WNames[w]))
              => ncalls[w] >= 1

\* C5: on(e, h1, ..., hn) never fails, returns h1, makes e a key, appends
\* h1..hn in argument order after the handlers already there (duplicates
\* kept) and leaves every other event as it was
C5_OnAppends ==
    last.op = "on" =>
        /\ last.exc = NoExc
        /\ last.res = last.hs[1]
        /\ last.event \in DOMAIN last.post
        /\ get_handlers(last.post, last.event)
              = get_handlers(last.pre, last.event) \o last.hs
        /\ OtherEventsSame(last.pre, last.post, last.event)

\* C5's case: two handlers appended to a list that already holds the first
\* of them, while another event is registered
C5_Witness ==
    /\ last.op = "on"
    /\ Len(last.hs) = 2
    /\ is_registered(last.pre, last.event, last.hs[1])
    /\ \E e \in DOMAIN last.pre \ {last.event} : last.pre[e] # <<>>
    /\ events = last.post

\* the calls a trigger makes when it invokes every entry of its copy
AllInvoked(callbacks, args, kw) ==
    [k \in 1..Len(callbacks) |->
        Invocation(callbacks[k], args, kw,
                   IF last.op = "trigger_async" /\ iscoroutinefunction(callbacks[k])
                   THEN "await" ELSE "call")]

\* C6: a trigger call (no keyword arguments) in which no handler raises
\* invokes every entry of its copy, in order, once per occurrence, with the
\* arguments of the call
C6_InvokesAll ==
    (last.op = "trigger" /\ last.kw = <<>> /\ last.at # "handler")
        => last.invoked = AllInvoked(last.callbacks, last.args, last.kw)

\* the same statement for trigger_async, with any arguments, when no
\* once-wrapper raises either
C6_InvokesAllAsync ==
    (last.op = "trigger_async" /\ last.at = "self")
        => last.invoked = AllInvoked(last.callbacks, last.args, last.kw)

\* C7: off(event, h) on a registered event raises HandlerNotFound(event, h)
\* if h is not in the event's list; otherwise it removes every occurrence
\* of h, keeps the other handlers in order, and is_registered(event, h) is
\* false afterwards
C7_OffHandler ==
    (IsOff /\ last.event \in DOMAIN last.pre /\ Len(last.hs) = 1) =>
        IF ~is_registered(last.pre, last.event, last.hs[1])
        THEN last.exc = HandlerNotFound(last.event, last.hs[1])
        ELSE /\ last.exc = NoExc
             /\ get_handlers(last.post, last.event)
                   = Without(last.pre[last.event], last.hs, 1)
             /\ ~is_registered(last.post, last.event, last.hs[1])

\* the same statement for the event names that are not the empty string
C7_OffHandlerNamed == last.event # "" => C7_OffHandler

\* C8: off(event, h1, ..., hn) that raises HandlerNotFound raises it for the
\* first hk not in the list once h1..h(k-1) are removed; exactly the
\* occurrences of h1..h(k-1) are gone, everything else is as before; and
\* off that raises EventNotFound leaves the registry unchanged
C8_OffNoRollback ==
    IsOff =>
        /\ last.exc.type = "EventNotFound" =>
              last.exc = EventNotFound(last.event) /\ last.post = last.pre
        /\ last.exc.type = "HandlerNotFound" =>
              \E k \in 1..Len(last.hs) :
                 /\ last.exc = HandlerNotFound(last.event, last.hs[k])
                 /\ \A m \in 1..(k - 1) :
                       is_registered(last.pre, last.event, last.hs[m])
                 /\ last.event \in DOMAIN last.post
                 /\ last.post[last.event]
                       = Without(last.pre[last.event], last.hs, k - 1)
                 /\ ~is_registered(last.post, last.event, last.hs[k])
                 /\ OtherEventsSame(last.pre, last.post, last.event)

\* C8's case: the second handler of the call is missing, the first one is
\* gone from the registry and another handler of the event stayed
C8_Witness ==
    /\ IsOff
    /\ Len(last.hs) = 2
    /\ last.exc = HandlerNotFound(last.event, last.hs[2])
    /\ last.post[last.event] # <<>>
    /\ last.post[last.event] # last.pre[last.event]
    /\ events = last.post

\* C9: off() never fails and leaves the registry empty: get_all_handlers()
\* has no key, no (event, handler) pair is registered, and every event has
\* an empty handler list, on which trigger returns False
C9_OffAll ==
    (IsOff /\ last.event = None) =>
        /\ last.exc = NoExc
        /\ DOMAIN get_all_handlers(last.post) = {}
        /\ \A e \in EventNames, h \in Callables : ~is_registered(last.post, e, h)
        /\ \A e \in EventNames : get_handlers(last.post, e) = <<>>

\* C9's case: off() called with handlers registered on both events
C9_Witness ==
    /\ IsOff
    /\ last.event = None
    /\ \A e \in EventNames : get_handlers(last.pre, e) # <<>>
    /\ events = last.post

\* C10: trigger / trigger_async (no keyword arguments) return False, having
\* invoked nothing, exactly when the event has no handlers, and return True
\* whenever it has one and no invoked handler raises
C10_Result ==
    (IsTrigger /\ last.kw = <<>>) =>
        /\ last.res = "False" <=> last.callbacks = <<>>
        /\ last.res = "False" => last.invoked = <<>>
        /\ (last.callbacks # <<>> /\ last.at # "handler") => last.res = "True"

\* the same statement for trigger_async, with any arguments, when no
\* once-wrapper raises either
C10_ResultAsync ==
    last.op = "trigger_async" =>
        /\ last.res = "False" <=> last.callbacks = <<>>
        /\ last.res = "False" => last.invoked = <<>>
        /\ (last.callbacks # <<>> /\ last.at = "self") => last.res = "True"

\* position in stack s of the trigger call that invoked the handler whose
\* body is on top of s
CallOf(s) == IF s[Len(s) - 1].kind = "wrapper" THEN Len(s) - 2 ELSE Len(s) - 1

\* C11: when the body of an ordinary handler raises during a trigger call,
\* the call ends there with that exception: the exception is what the
\* call's caller gets, the calls made are the entries of the copy up to the
\* raising one, each once and in order, no later entry is invoked, and the
\* registry is what it was when the handler raised
C11_HandlerRaiseAborts ==
    [][\A t \in Tasks :
          (HandlerRaise(t) /\ Top(stacks[t]).kind = "handler") =>
             LET p == CallOf(stacks[t])
                 F == stacks[t][p]
             IN /\ last'.op = F.kind
                /\ last'.res = "raised"
                /\ last'.exc = UserError
                /\ last'.callbacks = F.callbacks
                /\ last'.invoked = F.invoked
                /\ Names(F.invoked) = SubSeq(F.callbacks, 1, Len(F.invoked))
                /\ Len(stacks'[t]) = p - 1
                /\ \A u \in Tasks \ {t} : stacks'[u] = stacks[u]
                /\ IF p = 1 THEN cur' = 0
                   ELSE /\ cur' = t
                        /\ Top(stacks'[t]).exc = UserError
                        /\ Pop(stacks'[t]) = SubSeq(stacks[t], 1, p - 2)
                /\ events' = events
                /\ last'.post = events]_vars

\* C11's case: a call on three handlers has ended with the exception of the
\* second, the first having run and the third never invoked
C11_Witness ==
    /\ IsTrigger
    /\ last.exc = UserError
    /\ last.at = "handler"
    /\ Len(last.callbacks) = 3
    /\ Len(last.invoked) = 2
    /\ get_handlers(events, last.event) = last.callbacks
\* a state in which every coroutine of an asynchronous handler is being
\* awaited by the trigger_async call that invoked it, and every
\* trigger_async call has invoked the first entries of its copy, awaiting
\* the coroutine functions and calling the others
Awaited(stk) ==
    \A t \in Tasks : \A k \in 1..Len(stk[t]) :
        LET B == stk[t][k]
        IN /\ B.kind = "coro" =>
                 /\ k > 1
                 /\ stk[t][k - 1].kind = "trigger_async"
                 /\ LET F == stk[t][k - 1]
                    IN /\ F.i >= 1
                       /\ F.callbacks[F.i] = B.h
                       /\ F.invoked[F.i] = Invocation(B.h, F.args, F.kw, "await")
                       /\ B.args = F.args /\ B.kw = F.kw
           /\ B.kind = "trigger_async" =>
                 /\ Names(B.invoked) = SubSeq(B.callbacks, 1, B.i)
                 /\ \A m \in 1..Len(B.invoked) :
                       B.invoked[m].how = "await" <=> iscoroutinefunction(B.callbacks[m])

\* C12: within a trigger_async call the handlers run one after the other
\* in the order of the copy: an asynchronous handler is awaited by the call
\* itself, and while a handler of the call has not finished (running,
\* suspended, or never completing) the call stands still: it invokes
\* nothing more and does not return; a call returns True only from the end
\* of its loop; a call that disappears meanwhile was ended by an exception
C12_AsyncSequential ==
    [][/\ Awaited(stacks')
       /\ \A t \in Tasks : \A k \in 1..(Len(stacks[t]) - 1) :
             stacks[t][k].kind = "trigger_async" =>
                IF Len(stacks'[t]) >= k
                THEN stacks'[t][k] = stacks[t][k]
                ELSE /\ k = CallOf(stacks[t])
                     /\ last'.res = "raised"
                     /\ last'.invoked = stacks[t][k].invoked
       /\ (last' # last /\ last'.op = "trigger_async" /\ last'.res = "True") =>
             \E t \in Tasks :
                /\ AtLoop(t)
                /\ Top(stacks[t]).i = Len(Top(stacks[t]).callbacks)
                /\ last'.invoked = Top(stacks[t]).invoked
                /\ Names(last'.invoked) = last'.callbacks]_vars

\* C12's case: two trigger_async calls are outstanding; the first stands
\* still at its suspended asynchronous handler while the second, started
\* later, is running the handler of its own copy
C12_Witness ==
    /\ cur = 2
    /\ Len(stacks[1]) = 2 /\ Len(stacks[2]) = 2
    /\ stacks[1][1].kind = "trigger_async" /\ stacks[2][1].kind = "trigger_async"
    /\ stacks[1][2].kind = "coro" /\ stacks[2][2].kind = "coro"
    /\ stacks[1][1].i = 1 /\ stacks[2][1].i = 1
HasAsync(callbacks) == \E k \in 1..Len(callbacks) : iscoroutinefunction(callbacks[k])

\* C13: trigger without keyword arguments on a copy that holds an
\* asynchronous handler returns True: once no ordinary handler and no
\* once-wrapper of the call has raised, the call has not raised either,
\* and it has gone through the whole copy
C13_FireAndForget ==
    (last.op = "trigger" /\ last.kw = <<>> /\ HasAsync(last.callbacks)
        /\ last.at = "self")
        => /\ last.res = "True"
           /\ last.exc = NoExc
           /\ Len(last.invoked) = Len(last.callbacks)
\* position of the first coroutine function in a list that holds one
FirstAsync(callbacks) ==
    CHOOSE p \in 1..Len(callbacks) :
        /\ iscoroutinefunction(callbacks[p])
        /\ \A m \in 1..(p - 1) : ~iscoroutinefunction(callbacks[m])

C15_AsyncExecuted ==
    (last.op = "trigger" /\ last.kw = <<>> /\ last.at = "self"
        /\ \A job \in pool : job.state # "queued")
        => \A k \in 1..Len(last.callbacks) :
              iscoroutinefunction(last.callbacks[k]) =>
                 \E job \in pool : /\ job.h = last.callbacks[k]
                                   /\ job.args = last.args
                                   /\ job.state = "ran"
\* C16: a trigger / trigger_async call in which no user handler raised
\* does not end with EventNotFound or HandlerNotFound, whatever other
\* calls and earlier handlers have done to the once-wrappers of its copy
C16_NotFoundOnlyFromOff ==
    (IsTrigger /\ last.at # "handler")
        => last.exc.type \notin {"EventNotFound", "HandlerNotFound"}
\* C17: off called with an event name, the empty string included, with or
\* without handlers, succeeding or failing, leaves every other event as it
\* was: the same keys, the same handler lists
C17_OffOnlyItsEvent ==
    (IsOff /\ last.event \in EventNames)
        => OtherEventsSame(last.pre, last.post, last.event)

\* the same statement for the event names that are not the empty string
C17_OffOnlyItsEventNamed ==
    (IsOff /\ last.event \in EventNames \ {""})
        => OtherEventsSame(last.pre, last.post, last.event)
\* C18: while a once-wrapper is at its wrapped handlers it is not in its
\* event's list: it was called by a trigger call with that call's
\* arguments, the wrapped handler running is the one its loop has reached,
\* in argument order, with the arguments the wrapper received; a trigger
\* call made from inside a wrapped handler does not have the wrapper in its
\* copy; and a wrapper that has called a handler stays unregistered
\* whether the handler returns or raises
C18_WrapperUnregistersFirst ==
    /\ \A t \in Tasks : \A k \in 1..Len(stacks[t]) :
          LET W == stacks[t][k]
          IN W.kind = "wrapper" =>
                LET w == WNames[W.w]
                    e == wrappers[W.w].event
                    hs == wrappers[W.w].handlers
                IN /\ ~is_registered(events, e, w)
                   /\ k > 1
                   /\ stacks[t][k - 1].kind \in TriggerKinds
                   /\ stacks[t][k - 1].callbacks[stacks[t][k - 1].i] = w
                   /\ W.args = stacks[t][k - 1].args
                   /\ W.kw = stacks[t][k - 1].kw
                   /\ W.j <= Len(hs)
                   /\ k < Len(stacks[t]) =>
                         /\ W.j >= 1
                         /\ stacks[t][k + 1].kind = "handler"
                         /\ stacks[t][k + 1].h = hs[W.j]
                         /\ stacks[t][k + 1].args = W.args
                         /\ stacks[t][k + 1].kw = W.kw
                   /\ \A m \in (k + 1)..Len(stacks[t]) :
                         stacks[t][m].kind \in TriggerKinds =>
                            ~Contains(stacks[t][m].callbacks, w)
    /\ \A w \in 1..Len(wrappers) :
          ncalls[w] >= 1 => ~is_registered(events, wrappers[w].event, WNames[w])

\* C18's case: the wrapper of once(e, h1, h2), called with keyword
\* arguments, is at h2 after h1 triggered e again, which found no handler
C18_Witness ==
    /\ Len(stacks[1]) = 3
    /\ stacks[1][2].kind = "wrapper"
    /\ stacks[1][2].j = 2
    /\ stacks[1][2].kw # <<>>
    /\ stacks[1][3].kind = "handler"
    /\ IsTrigger
    /\ last.event = wrappers[stacks[1][2].w].event
    /\ last.res = "False"
QueryOps == {"get_handlers", "is_registered", "get_all_handlers"}

\* the lists user code keeps hold the items it was given and those it has
\* appended itself
CopiesIntact(h) ==
    /\ DOMAIN h.lists = DOMAIN h.expect
    /\ \A k \in DOMAIN h.lists : h.lists[k].items = h.expect[k]

\* C19: a step that is a call of get_handlers, is_registered or
\* get_all_handlers, or a trigger / trigger_async call that finds no
\* handler, raises nothing and leaves the registry as it was, keys
\* included; get_handlers returns the event's list (empty for an unknown
\* event), is_registered tells whether the handler is in it,
\* get_all_handlers returns every key with its list; the lists returned are
\* the caller's own: no later change of the registry shows in them, and
\* appending to one of them changes nothing in the registry
C19_ReadOnly ==
    [][/\ (nops' # nops /\ last'.op \in QueryOps) =>
             /\ events' = events
             /\ last'.exc = NoExc
             /\ last'.pre = events /\ last'.post = events
       /\ (nops' # nops /\ last'.op = "get_handlers") =>
             /\ DOMAIN held'.lists = {last'.event}
             /\ held'.lists[last'.event].items =
                   IF last'.event \in DOMAIN events THEN events[last'.event] ELSE <<>>
       /\ (nops' # nops /\ last'.op = "is_registered") =>
             /\ last'.res \in {"True", "False"}
             /\ last'.res = "True" <=>
                   /\ last'.event \in DOMAIN events
                   /\ Contains(events[last'.event], last'.hs[1])
             /\ held' = held
       /\ (nops' # nops /\ last'.op = "get_all_handlers") =>
             /\ DOMAIN held'.lists = DOMAIN events
             /\ \A k \in DOMAIN events : held'.lists[k].items = events[k]
       /\ (nops' # nops /\ last'.op \in TriggerKinds /\ last'.callbacks = <<>>) =>
             /\ events' = events
             /\ last'.res = "False" /\ last'.exc = NoExc
             /\ last'.event \notin DOMAIN events => last'.event \notin DOMAIN events'
             /\ held' = held
       /\ (nops' # nops /\ last'.op = "result.append") => events' = events
       /\ CopiesIntact(held')]_vars

\* C19's case: user code keeps the non-empty list get_handlers returned,
\* and a later on has made the event's list in the registry a different one
C19_Witness ==
    /\ last.op = "on"
    /\ last.event \in DOMAIN held.lists
    /\ held.lists[last.event].items # <<>>
    /\ held.lists[last.event].items = get_handlers(last.pre, last.event)
    /\ get_handlers(events, last.event) # held.lists[last.event].items
\* what once(event, h) has to leave behind, h not being registered on the
\* event before: a wrapper that was in no list before is returned and is
\* the last entry of the event's list, h itself is not registered,
\* off(event, h) raises HandlerNotFound, and off(event, wrapper) succeeds
\* and puts the event's list back to what it was, so that no later trigger
\* call has the wrapper in its copy
OnceRegistersWrapper(r) ==
    LET w == r.res
        r1 == off(r.post, r.event, r.hs)
        r2 == off(r.post, r.event, <<w>>)
    IN /\ r.exc = NoExc
       /\ w \in Wrappers
       /\ w # r.hs[1]
       /\ \A e \in DOMAIN r.pre : ~Contains(r.pre[e], w)
       /\ get_handlers(r.post, r.event) = get_handlers(r.pre, r.event) \o <<w>>
       /\ ~is_registered(r.post, r.event, r.hs[1])
       /\ r1.exc = HandlerNotFound(r.event, r.hs[1])
       /\ r1.events = r.post
       /\ r2.exc = NoExc
       /\ get_handlers(r2.events, r.event) = get_handlers(r.pre, r.event)
       /\ \A e \in EventNames : ~is_registered(r2.events, e, w)

\* C20: once(event, h) registers a new wrapper, not h, and returns it
C20_OnceRegistersWrapper ==
    (last.op = "once" /\ Len(last.hs) = 1
        /\ ~is_registered(last.pre, last.event, last.hs[1]))
        => OnceRegistersWrapper(last)

\* the same statement for the event names that are not the empty string
C20_OnceRegistersWrapperNamed ==
    (last.op = "once" /\ Len(last.hs) = 1 /\ last.event # ""
        /\ ~is_registered(last.pre, last.event, last.hs[1]))
        => OnceRegistersWrapper(last)

====
